---- MODULE Spec2Model ----
(***************************************************************************)
(* School Helper API: the request handlers of main.py, the Pydantic        *)
(* schemas of schemas.py and the document helpers of database.py, as a     *)
(* state machine over the four MongoDB collections.                        *)
(*                                                                         *)
(* Values are tagged records so that a string never equals a date, a       *)
(* number or None: [t |-> "none"], [t |-> "str", v |-> s],                 *)
(* [t |-> "num", v |-> n], [t |-> "date", v |-> iso], [t |-> "oid", ...],  *)
(* [t |-> "datetime", ...], [t |-> "list", v |-> <<...>>].                 *)
(* Python floats are modelled by exact integers; every input of the model  *)
(* is an integer-valued float, and `percentage` is carried in hundredths   *)
(* of a percent (8500 is 85.00), which is exact after round(_, 2).         *)
(***************************************************************************)
EXTENDS Integers, Sequences, FiniteSets, TLC

VARIABLES configured, dbTruth, coll, nextOid, clock, inflight, last

vars == <<configured, dbTruth, coll, nextOid, clock, inflight, last>>

\* ------------------------------------------------------------------ bounds
\* Documents stored plus Create Student requests in flight.
MaxDocs == 2
\* Longest subjects list of the grading specification.
MaxSubjects == 2

\* ------------------------------------------------------------------ values
None == [t |-> "none"]
\* A key absent from the JSON body.
Missing == [t |-> "missing"]
Str(s) == [t |-> "str", v |-> s]
Num(n) == [t |-> "num", v |-> n]
Date(s) == [t |-> "date", v |-> s]
List(q) == [t |-> "list", v |-> q]
\* The k-th reading of datetime.now(timezone.utc) while the c-th insert runs.
DateTime(c, k) == [t |-> "datetime", v |-> c, k |-> k]
Oid(n) == [t |-> "oid", v |-> n]

\* The 24-hex-digit strings of this universe: those the store issues, in the
\* order it issues them, and one well-formed id it never issued.
IssuedHex == <<"65a000000000000000000001", "65a000000000000000000002",
               "65a000000000000000000003", "65a000000000000000000004",
               "65a000000000000000000005", "65a000000000000000000006">>
UnissuedHex == "ffffffffffffffffffffffff"

\* str(ObjectId)
OidToStr(o) == IF o.v = 0 THEN UnissuedHex ELSE IssuedHex[o.v]

\* bson.ObjectId.is_valid on a str: 24 hex digits.
OidValid(s) == s = UnissuedHex \/ \E i \in DOMAIN IssuedHex : IssuedHex[i] = s

\* bson.ObjectId(s) for a valid s.
ObjectId(s) ==
    IF s = UnissuedHex THEN Oid(0)
    ELSE Oid(CHOOSE i \in DOMAIN IssuedHex : IssuedHex[i] = s)

\* The date strings Pydantic parses as calendar dates.
IsoDates == {"2024-01-01", "2024-01-02"}

\* sum(s.<f> for s in q)
RECURSIVE SumField(_, _)
SumField(q, f) == IF q = <<>> THEN 0 ELSE Head(q)[f].v + SumField(Tail(q), f)

\* q[:n]
Take(q, n) == SubSeq(q, 1, IF Len(q) < n THEN Len(q) ELSE n)

\* ----------------------------------------------------------------- schemas
\* Field(...) of type str: a JSON string, nothing else.
ReqStr(x) == x.t = "str"
\* Optional[str] = Field(None): absent or null gives None.
OptStrOk(x) == x.t \in {"missing", "none", "str"}
\* Optional[date] = Field(None)
OptDateOk(x) == x.t \in {"missing", "none"} \/ (x.t = "str" /\ x.v \in IsoDates)
\* date = Field(...)
ReqDateOk(x) == x.t = "str" /\ x.v \in IsoDates
\* Optional[float] with ge / le bounds (lo, hi in the field's unit; hi < 0: none)
OptNumOk(x, lo, hi) ==
    x.t \in {"missing", "none"} \/ (x.t = "num" /\ x.v >= lo /\ (hi < 0 \/ x.v <= hi))

Opt(x) == IF x.t = "missing" THEN None ELSE x
ToDate(x) == IF x.t = "str" THEN Date(x.v) ELSE None

StudentValid(b) ==
    /\ ReqStr(b.full_name) /\ ReqStr(b.roll_no) /\ ReqStr(b.class_name)
    /\ OptStrOk(b.section) /\ OptDateOk(b.dob)
    /\ OptStrOk(b.guardian_name) /\ OptStrOk(b.contact) /\ OptStrOk(b.address)

\* The validated Student instance of a valid body.
Student(b) ==
    [full_name |-> b.full_name, roll_no |-> b.roll_no, class_name |-> b.class_name,
     section |-> Opt(b.section), dob |-> ToDate(b.dob),
     guardian_name |-> Opt(b.guardian_name), contact |-> Opt(b.contact),
     address |-> Opt(b.address)]

SubjectMarkValid(s) ==
    /\ ReqStr(s.name)
    /\ s.marks.t = "num" /\ s.marks.v >= 0
    /\ s.max_marks.t = "num" /\ s.max_marks.v > 0

SubjectMark(s) == [name |-> s.name, marks |-> s.marks, max_marks |-> s.max_marks]

MarksheetValid(b) ==
    /\ ReqStr(b.student_id) /\ ReqStr(b.exam_name) /\ ReqStr(b.class_name)
    /\ b.year.t = "num" /\ b.year.v >= 1900 /\ b.year.v <= 3000
    /\ b.subjects.t = "list"
    /\ \A i \in DOMAIN b.subjects.v : SubjectMarkValid(b.subjects.v[i])
    /\ OptNumOk(b.total_obtained, 0, -1)
    /\ OptNumOk(b.total_max, 0, -1)
    /\ OptNumOk(b.percentage, 0, 10000)
    /\ OptStrOk(b.grade) /\ OptStrOk(b.remarks)

Marksheet(b) ==
    [student_id |-> b.student_id, exam_name |-> b.exam_name,
     class_name |-> b.class_name, year |-> b.year,
     subjects |-> List([i \in DOMAIN b.subjects.v |-> SubjectMark(b.subjects.v[i])]),
     total_obtained |-> Opt(b.total_obtained), total_max |-> Opt(b.total_max),
     percentage |-> Opt(b.percentage), grade |-> Opt(b.grade),
     remarks |-> Opt(b.remarks)]

AdmitCardValid(b) ==
    /\ ReqStr(b.student_id) /\ ReqStr(b.roll_no) /\ ReqStr(b.class_name)
    /\ ReqStr(b.exam_name)
    /\ OptDateOk(b.exam_date) /\ OptStrOk(b.center) /\ OptDateOk(b.issued_on)

AdmitCard(b) ==
    [student_id |-> b.student_id, roll_no |-> b.roll_no, class_name |-> b.class_name,
     exam_name |-> b.exam_name, exam_date |-> ToDate(b.exam_date),
     center |-> Opt(b.center), issued_on |-> ToDate(b.issued_on)]

StatusLiteral == {"Present", "Absent", "Late"}

\* The field is declared `date: date = Field(...)`; the model reads it as the
\* required calendar date the declaration means, in a service that is up.

AttendanceValid(b) ==
    /\ ReqStr(b.student_id) /\ ReqDateOk(b.date)
    /\ b.status.t = "str" /\ b.status.v \in StatusLiteral
    /\ OptStrOk(b.remarks)

Attendance(b) ==
    [student_id |-> b.student_id, date |-> ToDate(b.date), status |-> b.status,
     remarks |-> Opt(b.remarks)]

\* ----------------------------------------------------------------- grading
\* percentage >= k, for percentage = total_obt / total_max * 100 when
\* total_max > 0 and 0 otherwise, compared before any rounding.
PctAtLeast(obt, max, k) == IF max > 0 THEN 100 * obt >= k * max ELSE 0 >= k

\* The conditional chain of create_marksheet, on the unrounded percentage.
GradeOf(obt, max) ==
    IF PctAtLeast(obt, max, 90) THEN "A+"
    ELSE IF PctAtLeast(obt, max, 80) THEN "A"
    ELSE IF PctAtLeast(obt, max, 70) THEN "B"
    ELSE IF PctAtLeast(obt, max, 60) THEN "C"
    ELSE IF PctAtLeast(obt, max, 50) THEN "D"
    ELSE "E"

\* round(percentage, 2) in hundredths of a percent: the nearest hundredth,
\* a tie going to the even one.
Round2(obt, max) ==
    IF max > 0
    THEN LET n == 10000 * obt
             q == n \div max
             r == n % max
         IN  IF 2 * r > max THEN q + 1
             ELSE IF 2 * r = max THEN q + (q % 2)
             ELSE q
    ELSE 0

\* The body of create_marksheet before create_document: the derived fields
\* are assigned only under `if sheet.subjects:`.
Graded(sheet) ==
    IF sheet.subjects.v # <<>>
    THEN LET total_obt == SumField(sheet.subjects.v, "marks")
             total_max == SumField(sheet.subjects.v, "max_marks")
         IN  [sheet EXCEPT !.total_obtained = Num(total_obt),
                           !.total_max = Num(total_max),
                           !.percentage = Num(Round2(total_obt, total_max)),
                           !.grade = Str(GradeOf(total_obt, total_max))]
    ELSE sheet

\* ------------------------------------------------------------------- store
Collections == <<"student", "marksheet", "admitcard", "attendance">>

TotalDocs == Len(coll.student) + Len(coll.marksheet) + Len(coll.admitcard)
               + Len(coll.attendance)

\* Room for one more document within the bound of the model.
Room == TotalDocs + Len(inflight) < MaxDocs

\* create_document without its updated_at line.
Stamped_CreatedOnly(data) == data @@ [created_at |-> DateTime(clock + 1, 1)]

\* data_dict with the two timestamps of create_document.
Stamped(data) ==
    data @@ [created_at |-> DateTime(clock + 1, 1), updated_at |-> DateTime(clock + 1, 2)]

\* bson encodes str, float, int, None, list, dict and datetime.datetime; a
\* datetime.date (what model_dump() leaves in a date field) raises
\* InvalidDocument inside insert_one.
BsonEncodable(d) == \A f \in DOMAIN d : d[f].t # "date"

\* Collection.find(filter): the documents, in store order, that carry every
\* field of the filter with an equal value.
Matches(d, q) == \A f \in DOMAIN q : f \in DOMAIN d /\ d[f] = q[f]

RECURSIVE Find(_, _)
Find(docs, q) ==
    IF docs = <<>> THEN <<>>
    ELSE IF Matches(Head(docs), q) THEN <<Head(docs)>> \o Find(Tail(docs), q)
    ELSE Find(Tail(docs), q)

\* get_documents(collection_name, filter_dict) with limit None, for a
\* connected store (the handlers call it after ensure_db_available).
get_documents(c, q) == Find(coll[c], q)

\* d["id"] = str(d.pop("_id"))
PublicDoc(d) ==
    [f \in (DOMAIN d \ {"_id"}) \cup {"id"} |->
        IF f = "id" THEN Str(OidToStr(d["_id"])) ELSE d[f]]

PublicDocs(docs) == [i \in DOMAIN docs |-> PublicDoc(docs[i])]

\* The filter a list handler builds: a supplied value enters it only when it
\* is truthy (`if class_name:`), so None and "" both leave the field out.
Truthy(x) == x.t = "str" /\ x.v # ""

QueryOf(params) == [f \in {g \in DOMAIN params : Truthy(params[g])} |-> params[f]]

\* Collection.find_one(filter): the first match, or None.
find_one(c, q) == LET r == Find(coll[c], q) IN IF r = <<>> THEN None ELSE Head(r)

\* The document insert_one stores: the stamped dict under a fresh ObjectId.
Inserted(data) == ("_id" :> Oid(nextOid)) @@ Stamped(data)

\* --------------------------------------------------------------- responses
\* The outcome of the handler step just taken: the operation, its input, the
\* HTTP status (0 while a Create Student waits between its two store calls;
\* 500 for an exception no handler catches) and the JSON body.
Reply(op, req, status, body) == [op |-> op, req |-> req, status |-> status, body |-> body]

Respond(op, req, status, body) ==
    /\ last' = Reply(op, req, status, body)
    /\ UNCHANGED <<coll, nextOid, clock>>

\* A handler that forgets its availability check.
ensure_db_available_Skipped == TRUE

\* ensure_db_available passes: db, create_document and get_documents are
\* all set, which database.py makes equivalent to db being set.
ensure_db_available == configured

\* create_document(collection_name, data) called from a handler that
\* answers 201 {"id": ...}; its own "Database not available" exception and
\* an InvalidDocument from insert_one escape the handler.
create_document(c, data, op, req) ==
    IF ~configured THEN Respond(op, req, 500, None)
    ELSE IF BsonEncodable(Stamped(data))
    THEN /\ coll' = [coll EXCEPT ![c] = Append(@, Inserted(data))]
         /\ nextOid' = nextOid + 1
         /\ clock' = clock + 1
         /\ last' = Reply(op, req, 201, [id |-> Str(OidToStr(Oid(nextOid)))])
    ELSE Respond(op, req, 500, None)

\* The insert fits the bound of the model, or the call stores nothing.
Fits(data) == Room \/ ~BsonEncodable(Stamped(data))

\* ---------------------------------------------------------------- handlers
\* GET /
read_root ==
    /\ Respond("read_root", None, 200, [message |-> Str("School Helper Backend running")])
    /\ UNCHANGED <<configured, dbTruth, inflight>>

\* db.list_collection_names(): the collections that hold a document.
list_collection_names ==
    LET Names(i) == IF coll[Collections[i]] # <<>> THEN <<Str(Collections[i])>> ELSE <<>>
    IN  Names(1) \o Names(2) \o Names(3) \o Names(4)

CollectionsShown == 10

\* GET /test (the status texts without their emoji; the two fields that echo
\* the environment variables are left out).
test_database ==
    /\ IF configured
       THEN Respond("test_database", None, 200,
                    [database |-> Str("Connected & Working"),
                     connection_status |-> Str("Connected"),
                     collections |-> List(Take(list_collection_names, CollectionsShown))])
       ELSE Respond("test_database", None, 200,
                    [database |-> Str("Not Available"),
                     connection_status |-> Str("Not Connected"),
                     collections |-> List(<<>>)])
    /\ UNCHANGED <<configured, dbTruth, inflight>>

\* POST /students up to its first store call: body validation, the
\* availability check, `if db` and the roll_no pre-check. A request that
\* passes waits in `inflight`, body and validated instance, for its insert
\* (handlers run on a thread pool, so other requests run in between).
create_student_find(b) ==
    /\ UNCHANGED <<configured, dbTruth>>
    /\ IF ~StudentValid(b)
       THEN Respond("create_student", b, 422, None) /\ UNCHANGED inflight
       ELSE IF ~ensure_db_available
       THEN Respond("create_student", b, 503, None) /\ UNCHANGED inflight
       ELSE IF dbTruth = "raises"
       THEN Respond("create_student", b, 500, None) /\ UNCHANGED inflight
       ELSE IF find_one("student", [roll_no |-> Student(b).roll_no]) # None
       THEN Respond("create_student", b, 409, None) /\ UNCHANGED inflight
       ELSE /\ Room
            /\ inflight' = Append(inflight, [body |-> b, student |-> Student(b)])
            /\ Respond("create_student", b, 0, None)

\* POST /students from create_document on, for the i-th waiting request.
create_student_insert(i) ==
    /\ i \in DOMAIN inflight
    /\ inflight' = [j \in 1 .. Len(inflight) - 1 |->
                        IF j < i THEN inflight[j] ELSE inflight[j + 1]]
    /\ create_document("student", inflight[i].student, "create_student", inflight[i].body)
    /\ UNCHANGED <<configured, dbTruth>>

\* A handler that validates, checks availability and calls create_document.
Create(op, c, b, valid, data) ==
    /\ UNCHANGED <<configured, dbTruth, inflight>>
    /\ IF ~valid THEN Respond(op, b, 422, None)
       ELSE IF ~ensure_db_available THEN Respond(op, b, 503, None)
       ELSE Fits(data) /\ create_document(c, data, op, b)

\* POST /marksheets
create_marksheet(b) ==
    Create("create_marksheet", "marksheet", b, MarksheetValid(b), Graded(Marksheet(b)))

\* POST /admit-cards
create_admit_card(b) ==
    Create("create_admit_card", "admitcard", b, AdmitCardValid(b), AdmitCard(b))

\* POST /attendance
mark_attendance(b) ==
    Create("mark_attendance", "attendance", b, AttendanceValid(b), Attendance(b))

\* A list handler: the filter from the truthy parameters, the documents with
\* _id renamed to id.
ListDocs(op, c, params) ==
    /\ UNCHANGED <<configured, dbTruth, inflight>>
    /\ IF ~ensure_db_available THEN Respond(op, params, 503, None)
       ELSE Respond(op, params, 200, PublicDocs(get_documents(c, QueryOf(params))))

\* GET /students
list_students(class_name, section) ==
    ListDocs("list_students", "student", [class_name |-> class_name, section |-> section])

\* GET /marksheets
list_marksheets(student_id, exam_name) ==
    ListDocs("list_marksheets", "marksheet",
             [student_id |-> student_id, exam_name |-> exam_name])

\* GET /admit-cards
list_admit_cards(student_id, exam_name) ==
    ListDocs("list_admit_cards", "admitcard",
             [student_id |-> student_id, exam_name |-> exam_name])

\* GET /attendance
list_attendance(student_id, date, status) ==
    ListDocs("list_attendance", "attendance",
             [student_id |-> student_id, date |-> date, status |-> status])

\* get_student with only its fallback lookup.
StudentLookup_PlainOnly(student_id) == find_one("student", [id |-> Str(student_id)])

\* The lookup of get_student: by ObjectId, or, when ObjectId(student_id)
\* raises, by the plain field `id`.
StudentLookup(student_id) ==
    IF OidValid(student_id)
    THEN find_one("student", ("_id" :> ObjectId(student_id)))
    ELSE find_one("student", [id |-> Str(student_id)])

\* GET /students/{student_id}
get_student(student_id) ==
    /\ UNCHANGED <<configured, dbTruth, inflight>>
    /\ IF ~ensure_db_available THEN Respond("get_student", Str(student_id), 503, None)
       ELSE LET doc == StudentLookup(student_id)
            IN  IF doc = None
                THEN Respond("get_student", Str(student_id), 404, None)
                ELSE Respond("get_student", Str(student_id), 200, PublicDoc(doc))

\* ------------------------------------------------------------------ inputs
SB(roll_no, class_name, section, dob) ==
    [full_name |-> Str("A"), roll_no |-> roll_no, class_name |-> class_name,
     section |-> section, dob |-> dob,
     guardian_name |-> Missing, contact |-> Missing, address |-> Missing]

StudentBodies ==
    {SB(Str("1"), Str("5"), Str("A"), Missing),
     SB(Str("1"), Str(""), Missing, Missing),
     SB(Str("2"), Str("5"), Missing, Missing),
     SB(Str("2"), Str("5"), Missing, Str("2024-01-01")),
     SB(Missing, Str("5"), Missing, Missing)}

SM(name, marks, max_marks) ==
    [name |-> Str(name), marks |-> Num(marks), max_marks |-> Num(max_marks)]

\* forged: the caller fills the four derived fields itself.
MB(exam_name, year, subjects, forged) ==
    [student_id |-> Str(IssuedHex[1]), exam_name |-> Str(exam_name),
     class_name |-> Str("5"), year |-> Num(year), subjects |-> List(subjects),
     total_obtained |-> IF forged THEN Num(1) ELSE Missing,
     total_max |-> IF forged THEN Num(1) ELSE Missing,
     percentage |-> IF forged THEN Num(10000) ELSE Missing,
     grade |-> IF forged THEN Str("A+") ELSE Missing,
     remarks |-> Missing]

MarksheetBodies ==
    {MB(e, 2024, q, f) : e \in {"Mid"},
                         q \in {<<>>, <<SM("Math", 45, 50), SM("Sci", 40, 50)>>},
                         f \in BOOLEAN}
    \cup {MB("", 2024, <<SM("Math", 60, 50)>>, FALSE), MB("Mid", 1899, <<>>, FALSE)}

AB(student_id, roll_no, exam_name, exam_date) ==
    [student_id |-> Str(student_id), roll_no |-> roll_no, class_name |-> Str("5"),
     exam_name |-> Str(exam_name), exam_date |-> exam_date, center |-> Missing,
     issued_on |-> Missing]

AdmitCardBodies ==
    {AB(IssuedHex[1], Str("1"), "Mid", Missing),
     AB("x", Str("1"), "", Missing),
     AB("x", Str("1"), "Mid", Str("2024-01-01")),
     AB("x", Missing, "Mid", Missing)}

AttendanceBodies ==
    [student_id : {Str(IssuedHex[1])}, date : {Str("2024-01-01"), Str("soon")},
     status : {Str("Present"), Str("present")}, remarks : {Missing}]

\* Query strings: None is a parameter left out.
StudentQueries ==
    {<<None, None>>, <<Str("5"), None>>, <<Str(""), None>>, <<None, Str("A")>>,
     <<Str("5"), Str("A")>>}

ExamQueries ==
    {<<None, None>>, <<Str(IssuedHex[1]), None>>, <<None, Str("Mid")>>, <<None, Str("")>>,
     <<Str("x"), Str("Mid")>>}

AttendanceQueries ==
    {<<None, None, None>>, <<None, None, Str("Present")>>,
     <<Str(IssuedHex[1]), Str("2024-01-01"), None>>}

IdInputs == {IssuedHex[i] : i \in 1 .. MaxDocs} \cup {UnissuedHex, "abc"}

\* The marks of the grading specification.
GradingMarks ==
    {SM("S", m, x) : m \in {0, 40, 45, 60, 4999, 8999, 89996}, x \in {50, 10000, 100000}}
    \cup {SM("S", 1, 0)}

RECURSIVE SeqsUpTo(_, _)
SeqsUpTo(S, n) ==
    IF n = 0 THEN {<<>>}
    ELSE LET shorter == SeqsUpTo(S, n - 1)
         IN  shorter \cup {Append(q, x) : q \in shorter, x \in S}

GradingBodies ==
    {MB("Mid", 2024, q, f) : q \in SeqsUpTo(GradingMarks, MaxSubjects), f \in BOOLEAN}

\* ----------------------------------------------------------- specification
\* database.py at import: db is set when pymongo, DATABASE_URL and
\* DATABASE_NAME are all there, and never changes afterwards. `if db` in
\* create_student takes bool() of a pymongo Database: True up to pymongo 3,
\* NotImplementedError from pymongo 4 on; the source does not pin the version,
\* so the build decides (dbTruth). With db = None it is plainly falsy.
Init ==
    /\ configured \in BOOLEAN
    /\ dbTruth \in (IF configured THEN {"truthy", "raises"} ELSE {"falsy"})
    /\ coll = [student |-> <<>>, marksheet |-> <<>>, admitcard |-> <<>>, attendance |-> <<>>]
    /\ nextOid = 1
    /\ clock = 0
    /\ inflight = <<>>
    /\ last = Reply("start", None, 0, None)

Next ==
    \/ read_root
    \/ test_database
    \/ \E b \in StudentBodies : create_student_find(b)
    \/ \E i \in 1 .. MaxDocs : create_student_insert(i)
    \/ \E q \in StudentQueries : list_students(q[1], q[2])
    \/ \E i \in IdInputs : get_student(i)
    \/ \E b \in MarksheetBodies : create_marksheet(b)
    \/ \E q \in ExamQueries : list_marksheets(q[1], q[2])
    \/ \E b \in AdmitCardBodies : create_admit_card(b)
    \/ \E q \in ExamQueries : list_admit_cards(q[1], q[2])
    \/ \E b \in AttendanceBodies : mark_attendance(b)
    \/ \E q \in AttendanceQueries : list_attendance(q[1], q[2], q[3])

Spec == Init /\ [][Next]_vars

\* Grading alone: one Create Marksheet request per run, over every subjects
\* list of up to MaxSubjects marks.
InitGrading == Init /\ configured

NextGrading == \E b \in GradingBodies : last.op = "start" /\ create_marksheet(b)

SpecGrading == InitGrading /\ [][NextGrading]_vars

\* ------------------------------------------------------------------ claims
StoredSheets == {coll.marksheet[i] : i \in DOMAIN coll.marksheet}

StoredStudents == {coll.student[i] : i \in DOMAIN coll.student}

\* The band table of the specification, on a percentage in hundredths.
Band(p) ==
    IF p >= 9000 THEN "A+"
    ELSE IF p >= 8000 THEN "A"
    ELSE IF p >= 7000 THEN "B"
    ELSE IF p >= 6000 THEN "C"
    ELSE IF p >= 5000 THEN "D"
    ELSE "E"

Derived(d) == <<d.total_obtained, d.total_max, d.percentage, d.grade>>

\* C1: no two documents of the student collection share a roll_no, for every
\* interleaving of Create Student requests.
C1_UniqueRollNo ==
    \A i, j \in DOMAIN coll.student :
        i # j => coll.student[i].roll_no # coll.student[j].roll_no

\* C2: with the store configured, a valid Create Student whose roll_no is
\* already in the collection when it is looked up ends with 409 and inserts
\* nothing, and one whose roll_no is not there goes on to end with 201 and
\* the id of the document it inserted.
C2_ConflictOrCreated ==
    [][(last'.op = "create_student" /\ configured /\ last'.status # 422) =>
          IF Len(inflight') < Len(inflight)
          THEN /\ last'.status = 201
               /\ Len(coll'.student) = Len(coll.student) + 1
               /\ last'.body.id = Str(OidToStr(coll'.student[Len(coll'.student)]["_id"]))
          ELSE IF \E d \in StoredStudents : d.roll_no = last'.req.roll_no
               THEN last'.status = 409 /\ coll' = coll /\ inflight' = inflight
               ELSE last'.status = 0 /\ Len(inflight') = Len(inflight) + 1]_vars

\* C3: every stored marksheet with total_max > 0 carries the grade of the
\* band of its stored, rounded percentage.
C3_GradeOfStoredPercentage ==
    \A d \in StoredSheets :
        (d.total_max.t = "num" /\ d.total_max.v > 0) =>
            d.grade = Str(Band(d.percentage.v))

\* C4: a marksheet created with an empty subjects list is stored with
\* total_obtained = 0, total_max = 0 and percentage = 0.
C4_EmptySubjectsZero ==
    \A d \in StoredSheets :
        d.subjects.v = <<>> =>
            d.total_obtained = Num(0) /\ d.total_max = Num(0) /\ d.percentage = Num(0)

\* C5: two stored marksheets with the same subjects list carry the same
\* total_obtained, total_max, percentage and grade.
C5_DerivedFromSubjectsOnly ==
    \A d, e \in StoredSheets : d.subjects = e.subjects => Derived(d) = Derived(e)

\* C9: a marksheet created with a non-empty subjects list stores the sums of
\* marks and max_marks, the percentage 100 * total_obtained / total_max
\* rounded to 2 decimals, and a percentage within [0, 100].
C9_TotalsAndPercentage ==
    \A d \in StoredSheets :
        d.subjects.v # <<>> =>
            LET obt == SumField(d.subjects.v, "marks")
                max == SumField(d.subjects.v, "max_marks")
            IN  /\ d.total_obtained = Num(obt)
                /\ d.total_max = Num(max)
                /\ 2 * max * d.percentage.v - 20000 * obt <= max
                /\ 20000 * obt - 2 * max * d.percentage.v <= max
                /\ d.percentage.v >= 0 /\ d.percentage.v <= 10000

DataOps ==
    {"create_student", "list_students", "get_student", "create_marksheet",
     "list_marksheets", "create_admit_card", "list_admit_cards", "mark_attendance",
     "list_attendance"}

\* The collection an operation works on.
CollOf(op) ==
    CASE op \in {"create_student", "list_students", "get_student"} -> "student"
      [] op \in {"create_marksheet", "list_marksheets"} -> "marksheet"
      [] op \in {"create_admit_card", "list_admit_cards"} -> "admitcard"
      [] OTHER -> "attendance"

\* The body of the request r satisfies its schema (requests without a body do).
BodyValid(r) ==
    CASE r.op = "create_student" -> StudentValid(r.req)
      [] r.op = "create_marksheet" -> MarksheetValid(r.req)
      [] r.op = "create_admit_card" -> AdmitCardValid(r.req)
      [] r.op = "mark_attendance" -> AttendanceValid(r.req)
      [] OTHER -> TRUE

NoDocuments == TotalDocs = 0 /\ inflight = <<>>

LivenessAnswers ==
    /\ last.op = "read_root" =>
           last.status = 200 /\ last.body.message = Str("School Helper Backend running")
    /\ last.op = "test_database" =>
           /\ last.status = 200
           /\ last.body.database = Str("Not Available")
           /\ last.body.connection_status = Str("Not Connected")
           /\ last.body.collections = List(<<>>)

\* C6 as claimed: with the store unconfigured every Create, List and
\* Get-by-ID request ends with 503 whatever its body, no collection is
\* touched, and GET / and GET /test succeed and report the store as not
\* available, not connected, with no collections.
C6_Always503 ==
    ~configured =>
        /\ last.op \in DataOps => last.status = 503
        /\ NoDocuments
        /\ LivenessAnswers

\* C6 as amended: with the store unconfigured every List and Get-by-ID
\* request and every Create whose body satisfies the schema ends with 503, a
\* Create whose body violates the schema ends with 422, no collection is
\* touched, and GET / and GET /test succeed and report the store as not
\* available, not connected, with no collections.
C6_Unconfigured ==
    ~configured =>
        /\ last.op \in DataOps => last.status = (IF BodyValid(last) THEN 503 ELSE 422)
        /\ NoDocuments
        /\ LivenessAnswers

C6_Witness == ~configured /\ last.op = "create_marksheet" /\ last.status = 503

\* The documents of a collection whose stored fields equal every supplied
\* parameter (None is a parameter left out), in store order.
ExactMatches(c, params) ==
    SelectSeq(coll[c], LAMBDA d : \A f \in DOMAIN params :
                                     params[f] # None => d[f] = params[f])

\* C7: a List answer holds exactly the documents of its collection whose
\* stored fields equal every supplied filter value, an empty string
\* included; with no filter it holds them all.
C7_ListExactMatch ==
    (last.op \in {"list_students", "list_marksheets", "list_admit_cards", "list_attendance"}
        /\ last.status = 200) =>
        last.body = PublicDocs(ExactMatches(CollOf(last.op), last.req))

\* The two lookups of Get-by-ID, as the specification names them.
NativeMatch(s) == OidValid(s) /\ \E d \in StoredStudents : d["_id"] = ObjectId(s)

PlainMatch(s) == \E d \in StoredStudents : "id" \in DOMAIN d /\ d["id"] = Str(s)

\* The fields a caller sends, as the document returned to a caller shows them.
SameFields(doc, student) == \A f \in DOMAIN student : doc[f] = student[f]

\* C8: the id a Create Student returns names the document that create
\* inserted; Get-by-ID on the id string of any stored student, whatever was
\* created later, answers that document with its store id shown as `id`; and
\* Get-by-ID answers 404 exactly when neither lookup matches.
C8_IdRoundTrip ==
    /\ (last.op = "create_student" /\ last.status = 201) =>
           LET d == StudentLookup(last.body.id.v)
           IN  /\ d # None
               /\ d = coll.student[Len(coll.student)]
               /\ SameFields(d, Student(last.req))
    /\ \A d \in StoredStudents :
           /\ StudentLookup(OidToStr(d["_id"])) = d
           /\ ObjectId(OidToStr(d["_id"])) = d["_id"]
    /\ (last.op = "get_student" /\ configured) =>
           /\ last.status \in {200, 404}
           /\ last.status = 404 <=> ~NativeMatch(last.req.v) /\ ~PlainMatch(last.req.v)
           /\ last.status = 200 =>
                  \E d \in StoredStudents :
                      /\ OidToStr(d["_id"]) = last.req.v
                      /\ last.body = PublicDoc(d)
                      /\ last.body["id"] = last.req
                      /\ \A f \in DOMAIN d \ {"_id"} : last.body[f] = d[f]

C8_Witness ==
    /\ last.op = "get_student" /\ last.status = 200
    /\ last.req = Str(IssuedHex[1])
    /\ TotalDocs = MaxDocs

\* C10: a step that does not answer 201 leaves the four collections as they
\* were; a step that answers 201 is a Create with a valid body that appends
\* exactly one document, stamped with created_at and updated_at (and, for a
\* marksheet with subjects, already graded), to its own collection and
\* leaves the earlier documents and the other collections as they were.
C10_AppendOnly ==
    [][IF last'.status = 201
       THEN LET c == CollOf(last'.op)
                new == coll'[c][Len(coll'[c])]
            IN  /\ last'.op \in {"create_student", "create_marksheet",
                                  "create_admit_card", "mark_attendance"}
                /\ BodyValid(last')
                /\ Len(coll'[c]) = Len(coll[c]) + 1
                /\ SubSeq(coll'[c], 1, Len(coll[c])) = coll[c]
                /\ \A o \in DOMAIN coll : o # c => coll'[o] = coll[o]
                /\ {"created_at", "updated_at"} \subseteq DOMAIN new
                /\ new.created_at.t = "datetime" /\ new.updated_at.t = "datetime"
                /\ last'.body.id = Str(OidToStr(new["_id"]))
                /\ (c = "marksheet" /\ new.subjects.v # <<>>) =>
                       /\ new.total_obtained = Num(SumField(new.subjects.v, "marks"))
                       /\ new.total_max = Num(SumField(new.subjects.v, "max_marks"))
                       /\ new.grade.t = "str" /\ new.percentage.t = "num"
       ELSE coll' = coll]_vars

C10_Witness ==
    /\ last.op = "create_marksheet" /\ last.status = 201
    /\ Len(coll.marksheet) = 1 /\ TotalDocs = MaxDocs

====
